---- MODULE Spec2Model ----
(***************************************************************************)
(* Model of audios_profe.py: the incremental chat-log parser that groups   *)
(* attachments under the preceding message (a "tema"), pickles the resume  *)
(* state, moves the attachments into profe/sorted/<title>/ and converts    *)
(* the opus/ogg files found there.                                         *)
(*                                                                         *)
(* A text is a sequence of tokens (words or marks), so that the substring  *)
(* tests and the regular expressions of the script are computed on it.     *)
(* A file name is the sequence <<stem, suffix>>.                           *)
(***************************************************************************)
EXTENDS Integers, Sequences, FiniteSets, TLC

VARIABLES
    lines,          \* the lines of _chat.txt on disk (file.readlines())
    dumpFiles,      \* names of the media files present in paths.DUMP_DIR
    sortedDirs,     \* titles of the folders present under paths.PROFE_SORTED_DIR
    sortedFiles,    \* [dir, name] of the files present under paths.PROFE_SORTED_DIR
    pkl,            \* pickle.pkl: [exists, last_line, temas]
    pc,             \* position of the script: idle, group, place, convert
    LAST_LINE,      \* the script's LAST_LINE
    temas,          \* the script's temas
    index,          \* enumerate() index of the grouping loop
    tema_i,         \* position of `for tema in temas`
    file_i,         \* position of `for file in tema["files"]` (0: folder step)
    matching_files, \* the conversion loop's remaining files
    ev,             \* history: the last step taken, [op, dir, name]
    runMoves,       \* history: [dir, name] moved by the current/latest run
    placedDone,     \* history: [dir, name] moved by runs that completed
    assigned,       \* history: [att, topic] line numbers appended by this run
    prev,           \* history: how the run before this one ended, when nothing
                    \* happened in between: "finish", "no_new", "killed_early"
                    \* (before the pickle was written), "killed_late", else "other"
    split,          \* history: runs ended so far, while the log only grew and no
                    \* run was killed: "none", "one", "two", else "void"
    truncs          \* history: number of times the log has shrunk

vars == <<lines, dumpFiles, sortedDirs, sortedFiles, pkl, pc, LAST_LINE, temas,
          index, tema_i, file_i, matching_files, ev, runMoves, placedDone,
          assigned, prev, split, truncs>>

-----------------------------------------------------------------------------
(* Bounds *)

\* lines the log may hold beyond the start line
MaxNew == 3
\* times the log on disk may shrink
MaxTruncs == 1

-----------------------------------------------------------------------------
(* Program constants *)

\* LAST_LINE when there is no pickle
FIRST_LINE == 23

\* the left-to-right mark U+200E
LRM == "u200E"

ATTACHED == "<attached: "

WAV == ".wav"

ConvertibleSuffixes == {".ogg", ".opus"}

-----------------------------------------------------------------------------
(* Texts, file names and log lines *)

NoName == <<>>
NoDir == <<>>

OpusFile == <<"f", ".opus">>
TxtFile == <<"g", ".txt">>
Files == {OpusFile, TxtFile}

\* a line the message pattern does not match
NoiseLine == [gram |-> FALSE, char |-> FALSE, message |-> <<>>]

Content(text) == [gram |-> TRUE, char |-> FALSE, message |-> text]

Attach(name) == [gram |-> TRUE, char |-> TRUE,
                 message |-> <<LRM, ATTACHED>> \o name \o <<">">>]

\* a marker line whose <attached: ...> is not closed
BrokenAttach == [gram |-> TRUE, char |-> TRUE,
                 message |-> <<LRM, ATTACHED>> \o OpusFile]

\* the lines an export is made of
LineAlphabet ==
    { NoiseLine,
      Content(<<"a">>),
      Content(<<"b", "/", "c">>),
      Content(<<"audio", "omitted">>),
      Attach(OpusFile),
      Attach(TxtFile),
      BrokenAttach }

\* the words a token holds as substrings
Substrings(tok) == IF tok = ATTACHED THEN {tok, "attached"} ELSE {tok}

\* `word in message`
Contains(message, word) ==
    \E i \in 1..Len(message) : word \in Substrings(message[i])

\* message.replace("/", "_")
Replace(message) ==
    [i \in 1..Len(message) |-> IF message[i] = "/" THEN "_" ELSE message[i]]

\* re.match(PATTERN, line): the groups (char, message) or no match
PATTERN(line) == line.gram

\* positions at which FILENAME_PATTERN can anchor the attached marker
FilenameAnchors(message) ==
    { i \in 1..Len(message) :
        /\ i + 1 <= Len(message)
        /\ message[i] = LRM
        /\ message[i + 1] = ATTACHED
        /\ \E j \in (i + 2)..Len(message) : message[j] = ">" }

Max(S) == CHOOSE x \in S : \A y \in S : y <= x

\* re.match(FILENAME_PATTERN, message.strip()): TRUE iff it matches
FILENAME_PATTERN(message) == FilenameAnchors(message) # {}

\* rematch.groups()[0]: greedy on both sides
Filename(message) ==
    LET i == Max(FilenameAnchors(message))
        j == Max({k \in (i + 2)..Len(message) : message[k] = ">"})
    IN  SubSeq(message, i + 2, j - 1)

\* pathlib: Path.suffix and Path.with_suffix
Suffix(name) == IF Len(name) >= 2 THEN name[Len(name)] ELSE ""

WithSuffix(name, suffix) == SubSeq(name, 1, Len(name) - 1) \o <<suffix>>

-----------------------------------------------------------------------------
(* The grouping loop's body *)

\* line 104: the message opens a tema
OpensTema(line) ==
    /\ PATTERN(line)
    /\ ~Contains(line.message, "omitted")
    /\ ~Contains(line.message, "deleted")
    /\ ~line.char

\* lines 111-113: the message is an attachment whose file name is read
IsAttachment(line) ==
    /\ PATTERN(line)
    /\ line.char
    /\ ~Contains(line.message, "omitted")
    /\ Contains(line.message, "attached")
    /\ FILENAME_PATTERN(line.message)

\* lines 105-107: the new tema; `line` (history) is the number of its message
NewTema(line, n) == [title |-> Replace(line.message), files |-> <<>>, line |-> n]

\* variant: a message whose title a tema already bears opens no tema
OpenedMerged(ts, line, n) ==
    IF OpensTema(line)
       /\ \A i \in 1..Len(ts) : ts[i].title # Replace(line.message)
    THEN Append(ts, NewTema(line, n))
    ELSE ts

\* lines 104-108: temas after the first `if` of the loop body
Opened(ts, line, n) ==
    IF OpensTema(line) THEN Append(ts, NewTema(line, n)) ELSE ts

\* line 116: temas[-1] raises IndexError on an empty list
RaisesIndexError(ts, line, n) == IsAttachment(line) /\ Opened(ts, line, n) = <<>>

\* line 116: temas[-1]["files"].append(audio_path)
AppendFile(ts, name) ==
    [ts EXCEPT ![Len(ts)].files = Append(@, name)]

\* one iteration of the loop on `line`, the n-th line of the log
ProcessLine(ts, line, n) ==
    IF IsAttachment(line)
    THEN AppendFile(Opened(ts, line, n), Filename(line.message))
    ELSE Opened(ts, line, n)

\* lines[LAST_LINE:]
Window(ls, last) == SubSeq(ls, last + 1, Len(ls))

\* line 92
NoNewLines(last, ls) == last = Len(ls)

\* a slip: the last line is left to be read again
NewLastLineShort(ls) == Len(ls) - 1

\* line 118
NewLastLine(ls) == Len(ls)

\* a slip: the temas are kept as they are
FilterNothing(ts) == ts

\* line 122
FilterEmpty(ts) == SelectSeq(ts, LAMBDA item : item.files # <<>>)

-----------------------------------------------------------------------------
(* The placement loop's body *)

\* a slip: the existence of the file is tested under its own name
SortedFilePathOriginal(title, name) == [dir |-> title, name |-> name]

\* a slip: the converted file is looked for under another suffix
SortedFilePathMp3(title, name) ==
    IF Suffix(name) \in ConvertibleSuffixes
    THEN [dir |-> title, name |-> WithSuffix(name, ".mp3")]
    ELSE [dir |-> title, name |-> name]

\* lines 142-146: the path whose existence decides the move
SortedFilePath(title, name) ==
    IF Suffix(name) \in ConvertibleSuffixes
    THEN [dir |-> title, name |-> WithSuffix(name, WAV)]
    ELSE [dir |-> title, name |-> name]

\* shutil.move: the path the file is moved to
RealDst(title, name) == [dir |-> title, name |-> name]

\* utils.opus_to_mp3.convert_opus_to_mp3: the sibling file it writes, which
\* transcribir.py reads from the sorted folders as *.wav
Converted(f) == [dir |-> f.dir, name |-> WithSuffix(f.name, WAV)]

\* variant: the list is that of the *.ogg files alone
MatchingOgg(fs) == {f \in fs : Suffix(f.name) = ".ogg"}

\* lines 159-161: rglob of *.opus and *.ogg
Matching(fs) == {f \in fs : Suffix(f.name) \in ConvertibleSuffixes}

-----------------------------------------------------------------------------
(* State *)

NoPickle == [exists |-> FALSE, last_line |-> 0, temas |-> <<>>]

Event(op, dir, name) == [op |-> op, dir |-> dir, name |-> name]

Ev(op) == Event(op, NoDir, NoName)

\* an export starts with FIRST_LINE lines that carry no message
Header == [i \in 1..FIRST_LINE |-> NoiseLine]

\* the media a zip may hold
ZipContents == SUBSET Files

\* one more run has read the log
Bump(s) == IF s = "none" THEN "one" ELSE IF s = "one" THEN "two" ELSE "void"

Init ==
    /\ lines = Header
    /\ dumpFiles = {}
    /\ sortedDirs = {}
    /\ sortedFiles = {}
    /\ pkl = NoPickle
    /\ pc = "idle"
    /\ LAST_LINE = 0
    /\ temas = <<>>
    /\ index = 0
    /\ tema_i = 0
    /\ file_i = 0
    /\ matching_files = {}
    /\ ev = Ev("init")
    /\ runMoves = {}
    /\ placedDone = {}
    /\ assigned = {}
    /\ prev = "other"
    /\ split = "none"
    /\ truncs = 0

\* the script has exited: its variables are gone
Exit ==
    /\ pc' = "idle"
    /\ LAST_LINE' = 0
    /\ temas' = <<>>
    /\ index' = 0
    /\ tema_i' = 0
    /\ file_i' = 0
    /\ matching_files' = {}
    /\ assigned' = {}

Locals == <<LAST_LINE, temas, index, tema_i, file_i, matching_files>>
Disk == <<lines, dumpFiles, sortedDirs, sortedFiles, pkl>>

-----------------------------------------------------------------------------
(* The environment: the export grows, or shrinks, between two runs *)

AppendLine ==
    /\ pc = "idle"
    /\ Len(lines) < FIRST_LINE + MaxNew
    /\ \E l \in LineAlphabet : lines' = Append(lines, l)
    /\ ev' = Ev("append")
    /\ prev' = "other"
    /\ UNCHANGED <<dumpFiles, sortedDirs, sortedFiles, pkl, pc, Locals, runMoves,
                   placedDone, assigned, split, truncs>>

Truncate ==
    /\ pc = "idle"
    /\ truncs < MaxTruncs
    /\ Len(lines) > 0
    /\ lines' = SubSeq(lines, 1, Len(lines) - 1)
    /\ ev' = Ev("truncate")
    /\ prev' = "other"
    /\ split' = "void"
    /\ truncs' = truncs + 1
    /\ UNCHANGED <<dumpFiles, sortedDirs, sortedFiles, pkl, pc, Locals, runMoves,
                   placedDone, assigned>>

-----------------------------------------------------------------------------
(* The script, lines 50-94: the inputs, the pickle, the new lines *)

\* the ending a run that starts now comes right after
Ending(op) ==
    IF op \in {"finish", "no_new", "killed_early", "killed_late"} THEN op
    ELSE "other"

\* lines 82-90
LoadedLastLine == IF pkl.exists THEN pkl.last_line ELSE FIRST_LINE

\* variant: the temas of the pickle are not read
LoadedTemasNone == <<>>

\* lines 82-90: temas, from the pickle if there is one
LoadedTemas == IF pkl.exists THEN pkl.temas ELSE <<>>

\* lines 50-52: no *profe.zip in the source directory
MissingZip ==
    /\ pc = "idle"
    /\ ev' = Ev("missing_zip")
    /\ prev' = "other"
    /\ UNCHANGED <<Disk, pc, Locals, runMoves, placedDone, assigned, split,
                   truncs>>

\* variant: the chat file is looked for after the dump of lines 118-132
MissingChatLate ==
    /\ pc = "idle"
    /\ \E zip \in ZipContents : dumpFiles' = dumpFiles \cup zip
    /\ pkl' = [exists |-> TRUE, last_line |-> NewLastLine(lines),
               temas |-> LoadedTemas]
    /\ ev' = Ev("missing_chat")
    /\ prev' = "other"
    /\ UNCHANGED <<lines, sortedDirs, sortedFiles, pc, Locals, runMoves,
                   placedDone, assigned, split, truncs>>

\* lines 53-70: the zip is extracted and holds no _chat.txt
MissingChat ==
    /\ pc = "idle"
    /\ \E zip \in ZipContents : dumpFiles' = dumpFiles \cup zip
    /\ ev' = Ev("missing_chat")
    /\ prev' = "other"
    /\ UNCHANGED <<lines, sortedDirs, sortedFiles, pkl, pc, Locals, runMoves,
                   placedDone, assigned, split, truncs>>

\* lines 53-94: the zip is extracted, the pickle loaded, and nothing is new
NoNewData ==
    /\ pc = "idle"
    /\ NoNewLines(LoadedLastLine, lines)
    /\ \E zip \in ZipContents : dumpFiles' = dumpFiles \cup zip
    /\ ev' = Ev("no_new")
    /\ prev' = Ending(ev.op)
    /\ split' = Bump(split)
    /\ UNCHANGED <<lines, sortedDirs, sortedFiles, pkl, pc, Locals, runMoves,
                   placedDone, assigned, truncs>>

\* lines 53-96: the zip is extracted, the pickle loaded, and the loop entered
BeginRun ==
    /\ pc = "idle"
    /\ ~NoNewLines(LoadedLastLine, lines)
    /\ \E zip \in ZipContents : dumpFiles' = dumpFiles \cup zip
    /\ pc' = "group"
    /\ LAST_LINE' = LoadedLastLine
    /\ temas' = LoadedTemas
    /\ index' = 0
    /\ ev' = Ev("begin")
    /\ prev' = Ending(ev.op)
    /\ split' = Bump(split)
    /\ runMoves' = {}
    /\ assigned' = {}
    /\ UNCHANGED <<lines, sortedDirs, sortedFiles, pkl, tema_i, file_i,
                   matching_files, placedDone, truncs>>

-----------------------------------------------------------------------------
(* The script, lines 96-132: the grouping loop and the pickle *)

\* lines 96-116: one iteration
GroupLine ==
    /\ pc = "group"
    /\ index < Len(Window(lines, LAST_LINE))
    /\ LET line == Window(lines, LAST_LINE)[index + 1]
           n == LAST_LINE + index + 1
       IN  IF RaisesIndexError(temas, line, n)
           THEN /\ Exit
                /\ ev' = Ev("index_error")
           ELSE /\ temas' = ProcessLine(temas, line, n)
                /\ index' = index + 1
                /\ ev' = Ev(IF IsAttachment(line) THEN "attach"
                            ELSE IF OpensTema(line) THEN "topic" ELSE "nochange")
                /\ assigned' =
                      IF IsAttachment(line)
                      THEN assigned \cup
                             {[att |-> n, topic |-> temas'[Len(temas')].line]}
                      ELSE assigned
                /\ UNCHANGED <<pc, LAST_LINE, tema_i, file_i, matching_files>>
    /\ UNCHANGED <<Disk, runMoves, placedDone, prev, split, truncs>>

\* variant: the folders of lines 136-137 are made along with the dump
SaveWithFolders ==
    /\ pc = "group"
    /\ index = Len(Window(lines, LAST_LINE))
    /\ LAST_LINE' = NewLastLine(lines)
    /\ temas' = FilterEmpty(temas)
    /\ pkl' = [exists |-> TRUE, last_line |-> LAST_LINE', temas |-> temas']
    /\ sortedDirs' = sortedDirs \cup {temas'[i].title : i \in 1..Len(temas')}
    /\ pc' = "place"
    /\ tema_i' = 1
    /\ file_i' = 0
    /\ ev' = Ev("save")
    /\ UNCHANGED <<lines, dumpFiles, sortedFiles, index, matching_files,
                   runMoves, placedDone, assigned, prev, split, truncs>>

\* lines 118-132
Save ==
    /\ pc = "group"
    /\ index = Len(Window(lines, LAST_LINE))
    /\ LAST_LINE' = NewLastLine(lines)
    /\ temas' = FilterEmpty(temas)
    /\ pkl' = [exists |-> TRUE, last_line |-> LAST_LINE', temas |-> temas']
    /\ pc' = "place"
    /\ tema_i' = 1
    /\ file_i' = 0
    /\ ev' = Ev("save")
    /\ UNCHANGED <<lines, dumpFiles, sortedDirs, sortedFiles, index, matching_files,
                   runMoves, placedDone, assigned, prev, split, truncs>>

-----------------------------------------------------------------------------
(* The script, lines 134-152: the placement loop *)

\* the position after the file at file_i of the tema at tema_i
NextFile ==
    IF file_i < Len(temas[tema_i].files)
    THEN /\ file_i' = file_i + 1
         /\ tema_i' = tema_i
    ELSE /\ file_i' = 0
         /\ tema_i' = tema_i + 1

\* variant: the loop goes into the tema without making its folder
EnterTemaNoFolder ==
    /\ pc = "place"
    /\ tema_i <= Len(temas)
    /\ file_i = 0
    /\ LET tema == temas[tema_i]
       IN  /\ IF tema.files # <<>>
              THEN file_i' = 1 /\ tema_i' = tema_i
              ELSE file_i' = 0 /\ tema_i' = tema_i + 1
           /\ ev' = Event("folder", tema.title, NoName)
    /\ UNCHANGED <<Disk, pc, LAST_LINE, temas, index, matching_files, runMoves,
                   placedDone, assigned, prev, split, truncs>>

\* lines 134-137: the tema's folder
EnterTema ==
    /\ pc = "place"
    /\ tema_i <= Len(temas)
    /\ file_i = 0
    /\ LET tema == temas[tema_i]
       IN  /\ sortedDirs' =
                IF tema.title \notin sortedDirs /\ tema.files # <<>>
                THEN sortedDirs \cup {tema.title}
                ELSE sortedDirs
           /\ IF tema.files # <<>>
              THEN file_i' = 1 /\ tema_i' = tema_i
              ELSE file_i' = 0 /\ tema_i' = tema_i + 1
           /\ ev' = Event("folder", tema.title, NoName)
    /\ UNCHANGED <<lines, dumpFiles, sortedFiles, pkl, pc, LAST_LINE, temas, index,
                   matching_files, runMoves, placedDone, assigned, prev, split,
                   truncs>>

\* lines 141-152: one file of the tema
PlaceFile ==
    /\ pc = "place"
    /\ tema_i <= Len(temas)
    /\ file_i >= 1
    /\ LET title == temas[tema_i].title
           name == temas[tema_i].files[file_i]
       IN  IF SortedFilePath(title, name) \in sortedFiles
           THEN \* line 148: the converted file exists
                /\ NextFile
                /\ ev' = Event("skipped", title, name)
                /\ UNCHANGED <<dumpFiles, sortedFiles, runMoves, pc, LAST_LINE,
                               temas, index, matching_files, assigned>>
           ELSE IF RealDst(title, name) \in sortedFiles
           THEN \* shutil.move: Destination path already exists
                /\ Exit
                /\ ev' = Event("move_exists", title, name)
                /\ UNCHANGED <<dumpFiles, sortedFiles, runMoves>>
           ELSE IF name \notin dumpFiles
           THEN \* shutil.move: FileNotFoundError
                /\ Exit
                /\ ev' = Event("move_missing", title, name)
                /\ UNCHANGED <<dumpFiles, sortedFiles, runMoves>>
           ELSE /\ dumpFiles' = dumpFiles \ {name}
                /\ sortedFiles' = sortedFiles \cup {RealDst(title, name)}
                /\ runMoves' = runMoves \cup {RealDst(title, name)}
                /\ NextFile
                /\ ev' = Event("moved", title, name)
                /\ UNCHANGED <<pc, LAST_LINE, temas, index, matching_files,
                               assigned>>
    /\ UNCHANGED <<lines, sortedDirs, pkl, placedDone, prev, split, truncs>>

-----------------------------------------------------------------------------
(* The script, lines 155-167: the conversion loop *)

\* lines 155-161
ScanSorted ==
    /\ pc = "place"
    /\ tema_i > Len(temas)
    /\ matching_files' = Matching(sortedFiles)
    /\ pc' = "convert"
    /\ ev' = Ev("scan")
    /\ UNCHANGED <<Disk, LAST_LINE, temas, index, tema_i, file_i, runMoves,
                   placedDone, assigned, prev, split, truncs>>

\* lines 164-167: the file is converted and unlinked
ConvertFile ==
    /\ pc = "convert"
    /\ \E f \in matching_files :
          /\ sortedFiles' = (sortedFiles \cup {Converted(f)}) \ {f}
          /\ matching_files' = matching_files \ {f}
          /\ ev' = Event("converted", f.dir, f.name)
    /\ UNCHANGED <<lines, dumpFiles, sortedDirs, pkl, pc, LAST_LINE, temas, index,
                   tema_i, file_i, runMoves, placedDone, assigned, prev, split,
                   truncs>>

\* line 165: the converter raises
ConvertFails ==
    /\ pc = "convert"
    /\ \E f \in matching_files : ev' = Event("convert_error", f.dir, f.name)
    /\ Exit
    /\ runMoves' = {}
    /\ UNCHANGED <<Disk, placedDone, prev, split, truncs>>

\* the end of the script
Finish ==
    /\ pc = "convert"
    /\ matching_files = {}
    /\ Exit
    /\ ev' = Ev("finish")
    /\ placedDone' = placedDone \cup runMoves
    /\ runMoves' = {}
    /\ UNCHANGED <<Disk, prev, split, truncs>>

\* the process is killed
Interrupt ==
    /\ pc # "idle"
    /\ Exit
    /\ ev' = Ev(IF pc = "group" THEN "killed_early" ELSE "killed_late")
    /\ split' = "void"
    /\ runMoves' = {}
    /\ UNCHANGED <<Disk, placedDone, prev, truncs>>

-----------------------------------------------------------------------------

Next ==
    \/ AppendLine
    \/ MissingZip
    \/ MissingChat
    \/ NoNewData
    \/ BeginRun
    \/ GroupLine
    \/ Save
    \/ EnterTema
    \/ PlaceFile
    \/ ScanSorted
    \/ ConvertFile
    \/ ConvertFails
    \/ Finish
    \/ Interrupt

\* the runs of the script against an export that grows
Spec == Init /\ [][Next]_vars

NextShrink ==
    \/ Next
    \/ Truncate

\* the runs of the script against an export that grows and shrinks
SpecShrink == Init /\ [][NextShrink]_vars

\* the messages and the attachments among the lines of an export
TopicAlphabet ==
    {l \in LineAlphabet : OpensTema(l) \/ IsAttachment(l)}

\* the export grows by a message or an attachment, to one line more
AppendTopicLine ==
    /\ pc = "idle"
    /\ Len(lines) < FIRST_LINE + MaxNew + 1
    /\ \E l \in TopicAlphabet : lines' = Append(lines, l)
    /\ ev' = Ev("append")
    /\ prev' = "other"
    /\ UNCHANGED <<dumpFiles, sortedDirs, sortedFiles, pkl, pc, Locals, runMoves,
                   placedDone, assigned, split, truncs>>

NextTopics ==
    \/ AppendTopicLine
    \/ NoNewData
    \/ BeginRun
    \/ GroupLine
    \/ Save
    \/ EnterTema
    \/ PlaceFile
    \/ ScanSorted
    \/ ConvertFile
    \/ Finish

\* the runs of the script, none killed, against a longer export that grows
\* by messages and attachments only
SpecTopics == Init /\ [][NextTopics]_vars

-----------------------------------------------------------------------------
(* Properties *)

IssuedOps == {"moved", "move_exists", "move_missing"}
PlaceOps == IssuedOps \cup {"skipped"}
RunEnds == {"finish", "no_new", "index_error", "move_exists", "move_missing",
            "convert_error"}

\* the title and the files of each tema, without the history field
Strip(ts) == [i \in 1..Len(ts) |-> [title |-> ts[i].title, files |-> ts[i].files]]

\* the line of the nearest message that opens a tema before line a, among the
\* lines after `first`; 0 if there is none
NearestContent(ls, first, a) ==
    LET S == {k \in (first + 1)..(a - 1) : OpensTema(ls[k])}
    IN  IF S = {} THEN 0 ELSE Max(S)

\* C1: every attachment line of the run's new lines has its file in the list
\* of the tema opened by the nearest preceding content message of those new
\* lines, and is dropped, without a failure, when there is none.
C1_NearestTopic ==
    /\ ev.op # "index_error"
    /\ pc = "group" =>
         \A p \in assigned :
            /\ p.topic = NearestContent(lines, LAST_LINE, p.att)
            /\ \E i \in 1..Len(temas) :
                  /\ temas[i].line = p.topic
                  /\ \E j \in 1..Len(temas[i].files) :
                        temas[i].files[j] = Filename(lines[p.att].message)

\* the grouping loop on the lines k.. of ls, from the temas ts
RECURSIVE GroupFrom(_, _, _)
GroupFrom(ts, ls, k) ==
    IF k > Len(ls) THEN [ok |-> TRUE, temas |-> ts]
    ELSE IF RaisesIndexError(ts, ls[k], k) THEN [ok |-> FALSE, temas |-> ts]
    ELSE GroupFrom(ProcessLine(ts, ls[k], k), ls, k + 1)

\* the pickle a single run on ls writes when there is no pickle
OneShot(ls) ==
    LET r == GroupFrom(<<>>, ls, FIRST_LINE + 1)
    IN  IF NoNewLines(FIRST_LINE, ls) \/ ~r.ok THEN NoPickle
        ELSE [exists |-> TRUE, last_line |-> NewLastLine(ls),
              temas |-> FilterEmpty(r.temas)]

\* C2: a run on a prefix of the log followed by a run on the whole log
\* leaves the pickle a single run on the whole log writes.
C2_Resumable ==
    (split = "two" /\ pc = "idle" /\ ev.op \in RunEnds /\ OneShot(lines).exists)
        => /\ pkl.exists
           /\ pkl.last_line = OneShot(lines).last_line
           /\ Strip(pkl.temas) = Strip(OneShot(lines).temas)

\* C3: a run right after a run that completed, on the same log, finds
\* LAST_LINE equal to the number of lines and exits: the pickle, the sorted
\* files and the sorted folders are left as they are.
C3_Idempotent ==
    [][ (pc = "idle" /\ ev.op \in {"finish", "no_new"}
            /\ ev'.op \in {"no_new", "begin"})
        => /\ LoadedLastLine = Len(lines)
           /\ ev'.op = "no_new"
           /\ pc' = "idle"
           /\ UNCHANGED <<pkl, sortedFiles, sortedDirs>> ]_vars

\* a run has exited on "no new lines" right after a run that went to its end
C3_Witness == ev.op = "no_new" /\ prev = "finish" /\ pkl.temas # <<>>

\* C4: no tema with an empty file list is in the pickle, nor in the temas
\* the placement loop goes through.
C4_NoEmptyTema ==
    /\ \A i \in 1..Len(pkl.temas) : pkl.temas[i].files # <<>>
    /\ pc \in {"place", "convert"} =>
         \A i \in 1..Len(temas) : temas[i].files # <<>>

\* the pickle has just been written, and a message of the log opened a tema
\* that was filtered out
C4_Witness ==
    /\ ev.op = "save"
    /\ pkl.temas # <<>>
    /\ \E k \in (FIRST_LINE + 1)..Len(lines) :
          /\ OpensTema(lines[k])
          /\ \A i \in 1..Len(pkl.temas) : pkl.temas[i].line # k

PredictedPath(title, name) ==
    IF Suffix(name) = ".ogg" \/ Suffix(name) = ".opus"
    THEN Converted([dir |-> title, name |-> name])
    ELSE [dir |-> title, name |-> name]

C7_DuplicateSkipped ==
    (ev.op \in PlaceOps /\ RealDst(ev.dir, ev.name) \in runMoves)
        => ev.op \in {"moved", "skipped"}

\* C8: the last_line of the pickle never decreases from a run to the next.
C8_LastLineMonotone ==
    [][ (pkl.exists /\ pkl'.exists) => pkl'.last_line >= pkl.last_line ]_vars

\* C9: a run on a log shorter than the LAST_LINE of the pickle does not write the
\* pickle and does not enter the placement or the conversion loop.
C9_ShorterLogNoOp ==
    [][ (pc = "group" /\ pkl.exists /\ LAST_LINE > Len(lines))
        => pkl' = pkl /\ pc' \notin {"place", "convert"} ]_vars

\* C10: a file to move that is not in the dump directory, and not at its
\* predicted path, is passed over and the run goes on.
C10_StaleSourceSkipped ==
    ~(pc = "idle" /\ ev.op = "move_missing")

MissingOps == {"missing_zip", "missing_chat"}
KilledOps == {"killed_early", "killed_late"}

\* C11: an attachment line met while the working list of temas is empty
\* raises nothing and changes nothing: the list stays empty, the pickle is
\* not touched and the loop goes on to the next line, on its way to the dump.
C11_OrphanNoFailure ==
    [][ ( /\ pc = "group"
          /\ index < Len(lines) - LAST_LINE
          /\ IsAttachment(lines[LAST_LINE + index + 1])
          /\ temas = <<>>
          /\ ev'.op \notin KilledOps )
        => ( /\ pc' = "group"
             /\ index' = index + 1
             /\ temas' = <<>>
             /\ pkl' = pkl ) ]_vars

\* C12: an attachment line of a later run, met before any content message
\* of the new lines, adds nothing to a tema loaded from the pickle: the
\* file lists of the pickle are never extended by a later run.
C12_LoadedNotExtended ==
    [][ (pkl.exists /\ pkl'.exists)
        => \A i \in 1..Len(pkl.temas) :
              /\ i <= Len(pkl'.temas)
              /\ pkl'.temas[i].files = pkl.temas[i].files ]_vars

\* C13: a run that finds no zip, or no _chat.txt, ends before the grouping
\* loop: the pickle (last_line and temas) is as it was, and no folder is made
\* and no file moved under the sorted directory.
C13_MissingInput ==
    [][ ev'.op \in MissingOps
        => ( /\ pc = "idle" /\ pc' = "idle"
             /\ index' = 0 /\ temas' = <<>>
             /\ pkl' = pkl
             /\ sortedFiles' = sortedFiles
             /\ sortedDirs' = sortedDirs ) ]_vars

\* a run without its input, with a pickle that names files still to place
C13_Witness ==
    /\ ev.op \in MissingOps
    /\ pkl.exists
    /\ \E i \in 1..Len(pkl.temas) : \E j \in 1..Len(pkl.temas[i].files) :
          pkl.temas[i].files[j] \in dumpFiles

\* the pickle a run writes that starts from pickle p on the log ls and gets
\* through its loop
Resume(p, ls) ==
    LET last == IF p.exists THEN p.last_line ELSE FIRST_LINE
        old == IF p.exists THEN p.temas ELSE <<>>
    IN  [exists |-> TRUE, last_line |-> Len(ls),
         temas |-> FilterEmpty(GroupFrom(old, ls, last + 1).temas)]

\* C14: the pickle is written once in a run that gets through its new lines:
\* when every new line has been grouped and the empty temas filtered, and
\* before any folder is made or file moved under the sorted directory. A run
\* killed before the dump leaves the pickle as it was, and what a run dumps
\* depends on the pickle and the log alone, so the run after the kill dumps
\* what the killed run would have.
C14_PersistOrdering ==
    [][ /\ pkl' # pkl
            => /\ pc = "group" /\ pc' = "place"
               /\ index = Len(lines) - LAST_LINE
               /\ \A i \in 1..Len(pkl'.temas) : pkl'.temas[i].files # <<>>
               /\ pkl' = Resume(pkl, lines)
        /\ (pc = "group" \/ pc' = "group")
            => sortedFiles' = sortedFiles /\ sortedDirs' = sortedDirs
        /\ (pc' = "place" /\ pc # "place") => (pc = "group" /\ pkl' # pkl)
        /\ (pc' = "group" /\ pc # "group") => pc = "idle"
        /\ (pc' = "convert" /\ pc # "convert") => pc = "place"
        /\ ev'.op = "killed_early" => pkl' = pkl ]_vars

\* the dump of the run that follows a run killed in its loop, on top of the
\* pickle of a run that placed files
C14_Witness ==
    /\ ev.op = "save"
    /\ prev = "killed_early"
    /\ placedDone # {}
    /\ pkl.temas # <<>>

\* C15: each line of the loop has one of three effects, and no other:
\* (a) a message without the marker and without "omitted"/"deleted" opens
\* one tema and appends no file; (b) a marked message with "attached", without
\* "omitted", whose file name is read appends one file and opens no tema;
\* (c) any other line leaves the list of temas as it is. No line fails.
C15_LineClassification ==
    [][ ( /\ pc = "group"
          /\ index < Len(lines) - LAST_LINE
          /\ ev'.op \notin KilledOps )
        => LET line == lines[LAST_LINE + index + 1]
               a == /\ line.gram /\ ~line.char
                    /\ ~Contains(line.message, "omitted")
                    /\ ~Contains(line.message, "deleted")
               b == /\ line.gram /\ line.char
                    /\ Contains(line.message, "attached")
                    /\ ~Contains(line.message, "omitted")
                    /\ FILENAME_PATTERN(line.message)
           IN  /\ pc' = "group"
               /\ index' = index + 1
               /\ a => /\ Len(temas') = Len(temas) + 1
                       /\ SubSeq(temas', 1, Len(temas)) = temas
                       /\ temas'[Len(temas')].files = <<>>
               /\ b => \E i \in 1..Len(temas) : \E name \in Files :
                          temas' = [temas EXCEPT ![i].files = Append(@, name)]
               /\ ~(a \/ b) => temas' = temas
               /\ ~(a /\ b) ]_vars

\* the attachment lines of the new lines that follow the message of line k
\* with no other message in between
AttachmentsOf(ls, first, k) ==
    {a \in (k + 1)..Len(ls) :
        IsAttachment(ls[a]) /\ NearestContent(ls, first, a) = k}

\* C16: each message of the new lines that is followed by attachments has an
\* entry of its own in the pickle, under its title, so that two such messages
\* with the same title have two entries; and every file of an entry is moved
\* into the one folder that bears the title.
C16_SameTitleDistinct ==
    [][ /\ (pc = "group" /\ pc' = "place")
            => \A k \in (LAST_LINE + 1)..Len(lines) :
                  (OpensTema(lines[k]) /\ AttachmentsOf(lines, LAST_LINE, k) # {})
                  => /\ Cardinality({i \in 1..Len(pkl'.temas) :
                                        pkl'.temas[i].line = k}) = 1
                     /\ \A i \in 1..Len(pkl'.temas) :
                           pkl'.temas[i].line = k
                           => /\ pkl'.temas[i].title = Replace(lines[k].message)
                              /\ Len(pkl'.temas[i].files)
                                    = Cardinality(AttachmentsOf(lines, LAST_LINE, k))
        /\ (pc = "place" /\ ev'.op = "moved")
            => /\ ev'.dir = temas[tema_i].title
               /\ ev'.dir \in sortedDirs
               /\ sortedFiles' = sortedFiles \cup
                                    {[dir |-> ev'.dir, name |-> ev'.name]} ]_vars

\* two entries of the pickle with one title, opened by two messages, and a
\* file of each in the folder of that title
C16_Witness ==
    \E i, j \in 1..Len(pkl.temas) :
        /\ i < j
        /\ pkl.temas[i].title = pkl.temas[j].title
        /\ pkl.temas[i].line # pkl.temas[j].line
        /\ \E x \in 1..Len(pkl.temas[i].files), y \in 1..Len(pkl.temas[j].files) :
              /\ pkl.temas[i].files[x] # pkl.temas[j].files[y]
              /\ [dir |-> pkl.temas[i].title, name |-> pkl.temas[i].files[x]]
                    \in sortedFiles
              /\ [dir |-> pkl.temas[i].title, name |-> pkl.temas[j].files[y]]
                    \in sortedFiles

\* C17: when the placement loop issues a move, the folder of the tema exists:
\* it was made, if absent, when the loop came to the tema, before the first
\* of the tema's files; no file is ever in a folder that does not exist.
C17_FolderBeforeMove ==
    [][ /\ (pc = "place" /\ ev'.op \in IssuedOps)
            => /\ ev'.dir = temas[tema_i].title
               /\ ev'.dir \in sortedDirs
        /\ \A f \in sortedFiles' : f.dir \in sortedDirs' ]_vars

\* the first file of a tema has been moved into the folder of the tema
C17_Witness ==
    /\ ev.op = "moved"
    /\ ev.dir \in sortedDirs
    /\ RealDst(ev.dir, ev.name) \in sortedFiles
    /\ \E i \in 1..Len(temas) :
          temas[i].title = ev.dir /\ temas[i].files[1] = ev.name

\* C18: an .opus or .ogg file leaves the sorted directory only in the step
\* in which the converter has returned for that file, its converted sibling
\* then being there; and when a run ends, no .opus or .ogg file that the run
\* moved is left under the sorted directory.
C18_DeleteAfterConvert ==
    [][ /\ \A f \in sortedFiles \ sortedFiles' :
              (Suffix(f.name) = ".opus" \/ Suffix(f.name) = ".ogg")
              => /\ pc = "convert"
                 /\ ev' = Event("converted", f.dir, f.name)
                 /\ Converted(f) \in sortedFiles'
        /\ ev'.op = "convert_error" => sortedFiles' = sortedFiles
        /\ (pc = "convert" /\ ev'.op = "finish")
            => \A f \in runMoves :
                  (Suffix(f.name) = ".opus" \/ Suffix(f.name) = ".ogg")
                  => f \notin sortedFiles' ]_vars

\* a run has ended that moved an .opus file, now gone, its sibling in place
C18_Witness ==
    /\ ev.op = "finish"
    /\ \E f \in placedDone :
          /\ Suffix(f.name) = ".opus"
          /\ f \notin sortedFiles
          /\ Converted(f) \in sortedFiles

\* the file `name` of a tema `title` is in the folder of the tema, under its
\* own name or under the name the converter gives it
Placed(title, name) ==
    \/ RealDst(title, name) \in sortedFiles
    \/ PredictedPath(title, name) \in sortedFiles

\* C19: after a run killed between the dump and the end of its moves and
\* conversions, the runs that follow place the files of the pickle that are
\* still in the dump directory: no move fails on a file that an earlier run
\* had moved, and a run on the log as the killed run left it leaves no file
\* of the pickle unplaced.
C19_CrashRecovery ==
    /\ ev.op = "move_exists" => RealDst(ev.dir, ev.name) \in runMoves
    /\ (ev.op = "no_new" /\ prev = "killed_late")
        => \A i \in 1..Len(pkl.temas) : \A j \in 1..Len(pkl.temas[i].files) :
              pkl.temas[i].files[j] \in dumpFiles
              => Placed(pkl.temas[i].title, pkl.temas[i].files[j])

\* C20: the temas of the pickle are in the order of the lines of the log that
\* opened them, each under the title of its line, and from one dump to the
\* next the list keeps its temas, with their titles, in their places: the
\* earlier list is the head of the later one.
C20_PrefixPreserved ==
    [][ /\ (pkl.exists /\ pkl'.exists)
            => /\ Len(pkl'.temas) >= Len(pkl.temas)
               /\ \A i \in 1..Len(pkl.temas) :
                     /\ pkl'.temas[i].title = pkl.temas[i].title
                     /\ pkl'.temas[i].line = pkl.temas[i].line
        /\ \A i, j \in 1..Len(pkl'.temas) :
              i < j => pkl'.temas[i].line < pkl'.temas[j].line
        /\ \A i \in 1..Len(pkl'.temas) :
              LET k == pkl'.temas[i].line
              IN  /\ k \in (FIRST_LINE + 1)..Len(lines')
                  /\ OpensTema(lines'[k])
                  /\ pkl'.temas[i].title = Replace(lines'[k].message) ]_vars

\* a dump whose first tema was in the pickle the run loaded and whose second
\* tema was opened by the new lines of the run
C20_Witness ==
    /\ ev.op = "save"
    /\ Len(pkl.temas) >= 2
    /\ pkl.temas[1].line <= Len(lines) - index
    /\ pkl.temas[2].line > Len(lines) - index

====
